---------------------------- MODULE Spec2Model ----------------------------
(***************************************************************************)
(* Model of the data loading / cleaning pipeline of the survey dashboards: *)
(*   src/StudentPerformance.py  load_and_clean_data (lines 371-447)        *)
(*   src/app.py                 load_and_clean_data (lines 22-82)          *)
(* and of the st.cache_data memoisation that wraps them.                   *)
(*                                                                         *)
(* Library semantics are those of pandas 2.x (2.1 or later), the line the  *)
(* code was written against:                                               *)
(*   - df[col].fillna(v, inplace=True) updates the column of df;           *)
(*   - pd.cut raises ValueError when the bin edges are not increasing,     *)
(*     contain NaN, or are not unique;                                     *)
(*   - Series.mode() returns the modes sorted ascending (by category code  *)
(*     for a categorical, by string order for an object column).           *)
(* Floating point numbers are modelled by exact rationals n/d in lowest    *)
(* terms; a text is a sequence of tokens (single characters for the cells  *)
(* of the CSV file, whole words for labels and gender values).             *)
(***************************************************************************)
EXTENDS Integers, Sequences, FiniteSets, TLC

VARIABLES
    variant,    \* which program runs: "SP" (StudentPerformance.py) or "APP" (app.py)
    src,        \* the source file: read outcome per encoding, header, rows of text cells
    df,         \* the DataFrame under construction: [index, cols]
    pc,         \* position inside load_and_clean_data
    err,        \* class of the exception that left load_and_clean_data, "" if none
    file,       \* session: the content currently stored at DATA_FILE
    cache,      \* session: st.cache_data entries of load_and_clean_data, by path argument
    calls,      \* session: number of load_and_clean_data calls made so far
    bodyRuns,   \* session: how often the body of load_and_clean_data ran, by path
    writes,     \* session: how often a cache entry was written, by path
    last        \* session: what the latest call gave its caller

vars == <<variant, src, df, pc, err, file, cache, calls, bodyRuns, writes, last>>

-----------------------------------------------------------------------------
(* Numbers: exact rationals.                                               *)

Abs(x) == IF x < 0 THEN -x ELSE x

RECURSIVE GCD(_, _)
GCD(a, b) == IF b = 0 THEN a ELSE GCD(b, a % b)

RECURSIVE Pow10(_)
Pow10(k) == IF k = 0 THEN 1 ELSE 10 * Pow10(k - 1)

(* Cells of a DataFrame: NaN, a number, or a string.                       *)
NaN == [k |-> "nan", n |-> 0, d |-> 1, s |-> <<>>]
Str(s) == [k |-> "str", n |-> 0, d |-> 1, s |-> s]
Rat(n, d) ==
    LET g == GCD(Abs(n), d)
    IN  [k |-> "num", n |-> (IF n < 0 THEN -(Abs(n) \div g) ELSE n \div g),
         d |-> d \div g, s |-> <<>>]
IntCell(n) == Rat(n, 1)

IsNaN(c) == c.k = "nan"
IsNum(c) == c.k = "num"
IsStr(c) == c.k = "str"

RAdd(a, b) == Rat(a.n * b.d + b.n * a.d, a.d * b.d)
RDivInt(a, m) == Rat(a.n, a.d * m)
RSub(a, b) == Rat(a.n * b.d - b.n * a.d, a.d * b.d)
RMul(a, b) == Rat(a.n * b.n, a.d * b.d)
RDiv(a, b) == Rat((IF b.n < 0 THEN -1 ELSE 1) * a.n * b.d, a.d * Abs(b.n))
RLt(a, b) == a.n * b.d < b.n * a.d
RLe(a, b) == a.n * b.d <= b.n * a.d

-----------------------------------------------------------------------------
(* Text <-> number conversions.                                            *)

Digits == <<"0", "1", "2", "3", "4", "5", "6", "7", "8", "9">>
IsDigit(c) == \E i \in 1..10 : Digits[i] = c
DigitVal(c) == (CHOOSE i \in 1..10 : Digits[i] = c) - 1

RECURSIVE DigitsToNat(_)
DigitsToNat(s) ==
    IF s = <<>> THEN 0
    ELSE 10 * DigitsToNat(SubSeq(s, 1, Len(s) - 1)) + DigitVal(s[Len(s)])

RECURSIVE NatToDigits(_)
NatToDigits(m) ==
    IF m < 10 THEN <<Digits[m + 1]>>
    ELSE Append(NatToDigits(m \div 10), Digits[(m % 10) + 1])

RECURSIVE LeftPad(_, _)
LeftPad(s, w) == IF Len(s) >= w THEN s ELSE LeftPad(<<"0">> \o s, w)

(* float(text) as pd.to_numeric(errors='coerce') applies it to one string: *)
(* an optional sign, digits with at most one decimal point and at least    *)
(* one digit; anything else (also the text 'nan') gives NaN.               *)
ParseNum(s) ==
    LET neg  == Len(s) > 0 /\ s[1] = "-"
        body == IF neg THEN Tail(s) ELSE s
        dots == {i \in 1..Len(body) : body[i] = "."}
        ok   == /\ \A i \in 1..Len(body) : IsDigit(body[i]) \/ body[i] = "."
                /\ Cardinality(dots) <= 1
                /\ \E i \in 1..Len(body) : IsDigit(body[i])
        frac == IF dots = {} THEN 0 ELSE Len(body) - (CHOOSE i \in dots : TRUE)
        mag  == DigitsToNat(SelectSeq(body, IsDigit))
    IN  IF ok THEN Rat(IF neg THEN -mag ELSE mag, Pow10(frac)) ELSE NaN

(* str(x) of a number cell: '70' in an int64 column, '70.0' / '70.01' in   *)
(* a float64 column.                                                       *)
FormatNum(c, dtype) ==
    LET sign == IF c.n < 0 THEN <<"-">> ELSE <<>>
        k    == CHOOSE j \in 0..6 : Pow10(j) % c.d = 0
                    /\ \A i \in 0..(j - 1) : Pow10(i) % c.d # 0
        ip   == Abs(c.n) \div c.d
        fp   == (Abs(c.n) % c.d) * (Pow10(k) \div c.d)
    IN  IF dtype = "int64" THEN sign \o NatToDigits(Abs(c.n))
        ELSE sign \o NatToDigits(ip) \o <<".">>
                  \o (IF k = 0 THEN <<"0">> ELSE LeftPad(NatToDigits(fp), k))

(* Series.astype(str) on one cell.                                         *)
AsStr(c, dtype) ==
    IF IsStr(c) THEN c.s
    ELSE IF IsNaN(c) THEN <<"n", "a", "n">>
    ELSE FormatNum(c, dtype)

(* Series.str.replace('%', '') on one string.                              *)
NotPercent(t) == t # "%"
StripPercent(s) == SelectSeq(s, NotPercent)

-----------------------------------------------------------------------------
(* Python's ordering of the strings that occur as values ('0' < '>' <      *)
(* 'A' < 'a'): the position of a word in this list.                        *)
StringOrder ==
    <<"0 hours", "1-2 hours", "3-5 hours", ">5 hours", "Female",
      "High (>6h)", "High (>85%)", "High Attendance", "High Income",
      "Low (1-3h)", "Low (<=70%)", "Low Attendance", "Low Income", "Male",
      "Medium (3-6h)", "Medium (71-85%)", "Medium Attendance",
      "Medium Income", "No", "Other", "Unknown", "Very Low (<1h)", "Yes", "nan">>
StrRank(w) == CHOOSE i \in 1..Len(StringOrder) : StringOrder[i] = w
(* s1 < s2 for two one-word strings *)
StrLess(a, b) == StrRank(a.s[1]) < StrRank(b.s[1])

Lbl(w) == Str(<<w>>)

-----------------------------------------------------------------------------
(* DataFrame: [index |-> row labels, cols |-> columns in order]; a column  *)
(* is [name, dtype, cells, cats] (cats: the categories of a categorical).  *)

Column(name, dtype, cells) ==
    [name |-> name, dtype |-> dtype, cells |-> cells, cats |-> <<>>]
EmptyFrame == [index |-> <<>>, cols |-> <<>>]

NRows(f) == Len(f.index)
HasCol(f, name) == \E i \in 1..Len(f.cols) : f.cols[i].name = name
ColPos(f, name) ==
    CHOOSE i \in 1..Len(f.cols) :
        f.cols[i].name = name /\ \A j \in 1..(i - 1) : f.cols[j].name # name
GetCol(f, name) == f.cols[ColPos(f, name)]
(* df[name] = column: replaces the column in place, or appends it *)
SetCol(f, col) ==
    IF HasCol(f, col.name)
    THEN [f EXCEPT !.cols[ColPos(f, col.name)] = col]
    ELSE [f EXCEPT !.cols = Append(@, col)]
(* several columns carry the label name: df[name] is then a DataFrame, not *)
(* a Series                                                                *)
IsDup(f, name) == Cardinality({i \in 1..Len(f.cols) : f.cols[i].name = name}) > 1
(* df.empty *)
IsEmptyFrame(f) == Len(f.index) = 0 \/ Len(f.cols) = 0

IsNumericDtype(t) == t \in {"int64", "float64"}
AnyNull(cells) == \E i \in 1..Len(cells) : IsNaN(cells[i])

(* Results of a step: it went on with a frame, raised, or returned early. *)
Ok(f) == [st |-> "ok", df |-> f, err |-> ""]
Raise(e) == [st |-> "raise", df |-> EmptyFrame, err |-> e]
Return(f) == [st |-> "return", df |-> f, err |-> ""]

-----------------------------------------------------------------------------
(* pd.read_csv: type inference of one column of text cells.               *)

IsNAText(t) == t = <<>> \/ t = <<"n", "a", "n">>
HasDot(t) == \E i \in 1..Len(t) : t[i] = "."

(* a column without rows is a column of objects *)
InferColumn(name, texts) ==
    LET n      == Len(texts)
        allNum == \A i \in 1..n : IsNAText(texts[i]) \/ IsNum(ParseNum(texts[i]))
        isInt  == \A i \in 1..n : ~IsNAText(texts[i]) /\ ~HasDot(texts[i])
    IN  IF n = 0 THEN Column(name, "object", <<>>)
        ELSE IF allNum
        THEN Column(name, IF isInt THEN "int64" ELSE "float64",
                    [i \in 1..n |-> IF IsNAText(texts[i]) THEN NaN
                                    ELSE ParseNum(texts[i])])
        ELSE Column(name, "object",
                    [i \in 1..n |-> IF IsNAText(texts[i]) THEN NaN
                                    ELSE Str(texts[i])])

ParseCsv(s) ==
    [index |-> [i \in 1..s.nrows |-> i],
     cols  |-> [j \in 1..Len(s.header) |-> InferColumn(s.header[j], s.data[j])]]

-----------------------------------------------------------------------------
(* pandas operations on columns.                                           *)

(* faulty variant: a string that is no number becomes 0 instead of NaN *)
ToNumericCellsZero(cells) ==
    [i \in 1..Len(cells) |->
        IF IsStr(cells[i])
        THEN (IF IsNum(ParseNum(cells[i].s)) THEN ParseNum(cells[i].s) ELSE IntCell(0))
        ELSE cells[i]]
(* pd.to_numeric(series, errors='coerce') *)
ToNumericCells(cells) ==
    [i \in 1..Len(cells) |-> IF IsStr(cells[i]) THEN ParseNum(cells[i].s)
                             ELSE cells[i]]
IntText(t) == t # <<>> /\ \A i \in 1..Len(t) : IsDigit(t[i]) \/ (i = 1 /\ t[i] = "-")
ToNumericDtype(col) ==
    IF IsNumericDtype(col.dtype) THEN col.dtype
    ELSE IF Len(col.cells) > 0
            /\ \A i \in 1..Len(col.cells) :
                 IsStr(col.cells[i]) /\ IntText(col.cells[i].s)
         THEN "int64" ELSE "float64"

RECURSIVE SumCells(_)
SumCells(cells) ==
    IF cells = <<>> THEN IntCell(0)
    ELSE IF IsNum(Head(cells)) THEN RAdd(Head(cells), SumCells(Tail(cells)))
    ELSE SumCells(Tail(cells))
CountNum(cells) == Cardinality({i \in 1..Len(cells) : IsNum(cells[i])})

(* faulty variant: the sum divided by the number of rows, nulls counted *)
MeanOverAllRows(cells) ==
    IF CountNum(cells) = 0 THEN NaN
    ELSE RDivInt(SumCells(cells), Len(cells))
(* Series.mean(): the mean of the non-null entries, NaN when there is none *)
Mean(cells) ==
    IF CountNum(cells) = 0 THEN NaN
    ELSE RDivInt(SumCells(cells), CountNum(cells))

(* Series.max(): the largest non-null entry, NaN when there is none *)
Max(cells) ==
    IF CountNum(cells) = 0 THEN NaN
    ELSE CHOOSE m \in {cells[i] : i \in {j \in 1..Len(cells) : IsNum(cells[j])}} :
            \A i \in 1..Len(cells) : IsNum(cells[i]) => RLe(cells[i], m)

PlusOne(c) == IF IsNum(c) THEN RAdd(c, IntCell(1)) ELSE NaN

(* Series.fillna(v) *)
FillNa(cells, v) ==
    [i \in 1..Len(cells) |-> IF IsNaN(cells[i]) THEN v ELSE cells[i]]

(* pd.cut(series, bins, labels, right, include_lowest) with a list of bin  *)
(* edges: the code of each entry (0: no bucket, NaN).  searchsorted        *)
(* counts the edges below x (right=True: strictly below).                  *)
BinsIncrease(bins) ==
    /\ \A j \in 1..Len(bins) : IsNum(bins[j])
    /\ \A j \in 1..(Len(bins) - 1) : RLt(bins[j], bins[j + 1])

CutCode(x, bins, right, lowest) ==
    IF ~IsNum(x) THEN 0
    ELSE LET ids == IF right
                    THEN Cardinality({j \in 1..Len(bins) : RLt(bins[j], x)})
                    ELSE Cardinality({j \in 1..Len(bins) : RLe(bins[j], x)})
             id2 == IF lowest /\ x = bins[1] THEN 1 ELSE ids
         IN  IF id2 = 0 \/ id2 = Len(bins) THEN 0 ELSE id2

(* the categorical column pd.cut returns *)
CutColumn(name, cells, bins, labels, right, lowest) ==
    [name  |-> name, dtype |-> "category", cats |-> labels,
     cells |-> [i \in 1..Len(cells) |->
                  LET c == CutCode(cells[i], bins, right, lowest)
                  IN  IF c = 0 THEN NaN ELSE Lbl(labels[c])]]

CountOf(cells, v) == Cardinality({i \in 1..Len(cells) : cells[i] = v})

(* Series.mode()[0] of a categorical: the most frequent category, the one  *)
(* with the lowest code among several; no value when every entry is null.  *)
HasMode(cells) == \E i \in 1..Len(cells) : ~IsNaN(cells[i])
CatMode(col) ==
    LET best == CHOOSE j \in 1..Len(col.cats) :
                  /\ CountOf(col.cells, Lbl(col.cats[j])) > 0
                  /\ \A m \in 1..Len(col.cats) :
                       CountOf(col.cells, Lbl(col.cats[m]))
                          <= CountOf(col.cells, Lbl(col.cats[j]))
                  /\ \A m \in 1..(j - 1) :
                       CountOf(col.cells, Lbl(col.cats[m]))
                          < CountOf(col.cells, Lbl(col.cats[j]))
    IN  Lbl(col.cats[best])

(* faulty variant: among several most frequent values, the one met first *)
ObjModeFirstSeen(cells) ==
    LET vals == {cells[i] : i \in {j \in 1..Len(cells) : ~IsNaN(cells[j])}}
        top  == {v \in vals : \A w \in vals : CountOf(cells, w) <= CountOf(cells, v)}
    IN  cells[CHOOSE i \in 1..Len(cells) :
                  cells[i] \in top /\ \A j \in 1..(i - 1) : cells[j] \notin top]
(* Series.mode()[0] of an object column: the most frequent non-null value, *)
(* the smallest in string order among several (the modes come sorted).     *)
ObjMode(cells) ==
    LET vals == {cells[i] : i \in {j \in 1..Len(cells) : ~IsNaN(cells[j])}}
        top  == {v \in vals : \A w \in vals : CountOf(cells, w) <= CountOf(cells, v)}
    IN  CHOOSE v \in top : \A w \in top : w = v \/ StrLess(v, w)

(* the categories astype('category') gives a column of strings: the        *)
(* distinct values, sorted                                                 *)
SortedUnique(cells) ==
    LET Present(w) == \E i \in 1..Len(cells) : cells[i] = Lbl(w)
    IN  SelectSeq(StringOrder, Present)

(* series.astype(str) on the cells of a categorical: NaN becomes 'nan' *)
CatAsStr(cells) ==
    [i \in 1..Len(cells) |-> IF IsNaN(cells[i]) THEN Lbl("nan") ELSE cells[i]]
(* series.replace(old, new) *)
Replace(cells, old, new) ==
    [i \in 1..Len(cells) |-> IF cells[i] = old THEN new ELSE cells[i]]

-----------------------------------------------------------------------------
(* StudentPerformance.py, load_and_clean_data.                             *)

(* the try / except UnicodeDecodeError chain around pd.read_csv *)
SPRead(s) ==
    IF s.enc.utf8 = "ok" THEN Ok(ParseCsv(s))
    ELSE IF s.enc.utf8 # "UnicodeDecodeError" THEN Raise(s.enc.utf8)
    ELSE IF s.enc.latin1 = "ok" THEN Ok(ParseCsv(s))
    ELSE IF s.enc.latin1 # "UnicodeDecodeError" THEN Raise(s.enc.latin1)
    ELSE IF s.enc.cp1252 = "ok" THEN Ok(ParseCsv(s))
    ELSE Raise(s.enc.cp1252)

column_rename_map(h) ==
    CASE h = "What is your current CGPA?" -> "CGPA"
      [] h = "Gender" -> "Gender"
      [] h = "How many hour do you study daily?" -> "Study Hours per Day"
      [] h = "How many times do you seat for study in a day?" -> "Study Sessions per Day"
      [] h = "Average attendance on class" -> "Attendance"
      [] h = "How many hour do you spent daily in social media?" -> "Social Media Hours"
      [] h = "Do you have meritorious scholarship ?" -> "Scholarship Status"
      [] h = "What is your monthly family income?" -> "Family Income"
      [] h = "Do you have personal Computer?" -> "PC Status"
      [] h = "Do you attend in teacher consultancy for any kind of academical problems?"
           -> "Consultancy Status"
      [] h = "Status of your English language proficiency" -> "English Proficiency"
      [] OTHER -> h

(* df.rename(columns=column_rename_map, inplace=True) *)
SPRename(f) ==
    Ok([f EXCEPT !.cols = [j \in 1..Len(f.cols) |->
                             [f.cols[j] EXCEPT !.name = column_rename_map(@)]]])

(* df['CGPA'] = pd.to_numeric(df['CGPA'], errors='coerce') *)
SPCgpa(f) ==
    IF ~HasCol(f, "CGPA") THEN Raise("KeyError")
    ELSE IF IsDup(f, "CGPA") THEN Raise("TypeError")
    ELSE LET c == GetCol(f, "CGPA")
         IN  Ok(SetCol(f, Column("CGPA", ToNumericDtype(c), ToNumericCells(c.cells))))

(* df['Attendance_numeric'] = pd.to_numeric(                               *)
(*     df['Attendance'].astype(str).str.replace('%', ''), errors='coerce') *)
SPAttCoerce(f) ==
    LET c == GetCol(f, "Attendance")
    IN  IF IsDup(f, "Attendance") THEN Raise("AttributeError")
        ELSE
        Ok(SetCol(f, Column("Attendance_numeric", "float64",
              [i \in 1..Len(c.cells) |->
                  ParseNum(StripPercent(AsStr(c.cells[i], c.dtype)))])))

(* if isnull().any(): fillna(mean, inplace=True) *)
FillNaMean(cells) == IF AnyNull(cells) THEN FillNa(cells, Mean(cells)) ELSE cells

SPAttImpute(f) ==
    LET c == GetCol(f, "Attendance_numeric")
    IN  Ok(SetCol(f, [c EXCEPT !.cells = FillNaMean(@)]))

AttBins == <<IntCell(0), IntCell(70), IntCell(85), IntCell(100)>>
AttLabels == <<"Low (<=70%)", "Medium (71-85%)", "High (>85%)">>
(* faulty variant: the attendance buckets cut left-closed (right=False) *)
SPAttCutRightOpen(f) ==
    Ok(SetCol(f, CutColumn("Attendance_Category",
                           GetCol(f, "Attendance_numeric").cells,
                           AttBins, AttLabels, FALSE, TRUE)))
SPAttCut(f) ==
    Ok(SetCol(f, CutColumn("Attendance_Category",
                           GetCol(f, "Attendance_numeric").cells,
                           AttBins, AttLabels, TRUE, TRUE)))

(* faulty variant: the column keeps the categories the cut declared *)
ModeFillKeepCategories(f, name) ==
    LET c == GetCol(f, name)
    IN  IF ~HasMode(c.cells) THEN Raise("KeyError")
        ELSE Ok(SetCol(f, [c EXCEPT !.cells = Replace(CatAsStr(c.cells), Lbl("nan"),
                                                      CatMode(c))]))
(* df[c] = df[c].astype(str).replace('nan', df[c].mode()[0]).astype('category') *)
ModeFill(f, name) ==
    LET c == GetCol(f, name)
    IN  IF ~HasMode(c.cells) THEN Raise("KeyError")
        ELSE LET cells == Replace(CatAsStr(c.cells), Lbl("nan"), CatMode(c))
             IN  Ok(SetCol(f, [c EXCEPT !.cells = cells,
                                        !.cats = SortedUnique(cells)]))

SmBins(cells) ==
    <<IntCell(-1), IntCell(0), IntCell(2), IntCell(5), PlusOne(Max(cells))>>
SmLabels == <<"0 hours", "1-2 hours", "3-5 hours", ">5 hours">>
FiBins(cells) ==
    <<IntCell(0), IntCell(50000), IntCell(150000), PlusOne(Max(cells))>>
FiLabels == <<"Low Income", "Medium Income", "High Income">>

(* pd.cut with data-dependent edges: ValueError unless they increase *)
CutOrRaise(f, name, cells, bins, labels, right) ==
    IF ~BinsIncrease(bins) THEN Raise("ValueError")
    ELSE Ok(SetCol(f, CutColumn(name, cells, bins, labels, right, TRUE)))

(* if name in df.columns and np.issubdtype(df[name].dtype, np.number): the *)
(* block is entered when the test holds; a DataFrame has no dtype, so with *)
(* several columns of that name the test itself raises (in the block's     *)
(* first step below)                                                       *)
SPBandable(f, name) ==
    HasCol(f, name) /\ (IsDup(f, name) \/ IsNumericDtype(GetCol(f, name).dtype))

SPSmCut(f) ==
    LET cells == GetCol(f, "Social Media Hours").cells
    IN  IF IsDup(f, "Social Media Hours") THEN Raise("AttributeError")
        ELSE CutOrRaise(f, "Social Media Category", cells, SmBins(cells), SmLabels, TRUE)
SPFiCut(f) ==
    LET cells == GetCol(f, "Family Income").cells
    IN  IF IsDup(f, "Family Income") THEN Raise("AttributeError")
        ELSE CutOrRaise(f, "Family Income Category", cells, FiBins(cells), FiLabels, TRUE)

(* faulty variant: only the columns of strings are filled *)
FillCoreObjectsOnly(f, name) ==
    IF HasCol(f, name) /\ AnyNull(GetCol(f, name).cells)
                      /\ GetCol(f, name).dtype = "object"
    THEN LET c == GetCol(f, name)
         IN  SetCol(f, [c EXCEPT !.cells = FillNa(@, ObjMode(c.cells))])
    ELSE f
(* for col in ['CGPA', 'Gender']: fillna(mode()[0] if object else mean()) *)
FillCore(f, name) ==
    IF HasCol(f, name) /\ AnyNull(GetCol(f, name).cells)
    THEN LET c == GetCol(f, name)
             v == IF c.dtype = "object" THEN ObjMode(c.cells) ELSE Mean(c.cells)
         IN  SetCol(f, [c EXCEPT !.cells = FillNa(@, v)])
    ELSE f
SPFill(f) == Ok(FillCore(FillCore(f, "CGPA"), "Gender"))

-----------------------------------------------------------------------------
(* app.py, load_and_clean_data.                                            *)

TARGET_ADMISSION_YEAR == 2021

(* try utf-8 / except Exception: try latin1 / except Exception: st.error,  *)
(* return pd.DataFrame()                                                   *)
AppRead(s) ==
    IF s.enc.utf8 = "ok" THEN Ok(ParseCsv(s))
    ELSE IF s.enc.latin1 = "ok" THEN Ok(ParseCsv(s))
    ELSE Return(EmptyFrame)

RECURSIVE KeptPositions(_)
KeptPositions(flags) ==
    IF Len(flags) = 0 THEN <<>>
    ELSE LET r == KeptPositions(SubSeq(flags, 1, Len(flags) - 1))
         IN  IF flags[Len(flags)] THEN Append(r, Len(flags)) ELSE r

(* df[mask]: the rows at the positions where mask holds, labels kept *)
TakeRows(f, pos) ==
    [index |-> [i \in 1..Len(pos) |-> f.index[pos[i]]],
     cols  |-> [j \in 1..Len(f.cols) |->
                  [f.cols[j] EXCEPT !.cells = [i \in 1..Len(pos) |-> @[pos[i]]]]]]

(* faulty variant: the year compared as the string '2021' *)
YearMaskAsString(f) ==
    LET c == GetCol(f, "admission_year").cells
    IN  [i \in 1..Len(c) |-> c[i] = Str(<<"2", "0", "2", "1">>)]
YearMask(f) ==
    LET c == GetCol(f, "admission_year").cells
    IN  [i \in 1..Len(c) |-> c[i] = IntCell(TARGET_ADMISSION_YEAR)]

(* if df.empty: return df; then the admission_year filter (or the copy) *)
AppFilter(f) ==
    IF IsEmptyFrame(f) THEN Return(f)
    ELSE IF HasCol(f, "admission_year")
         THEN Ok(TakeRows(f, KeptPositions(YearMask(f))))
         ELSE Ok(f)

required_numeric_cols ==
    <<"current_cgpa", "study_hours_daily", "average_class_attendance",
      "social_media_hours_daily">>

(* one turn of the loop: to_numeric(errors='coerce'), then fillna(mean) *)
CoerceImpute(f, name) ==
    IF HasCol(f, name)
    THEN LET c     == GetCol(f, name)
             cells == ToNumericCells(c.cells)
         IN  SetCol(f, Column(name, ToNumericDtype(c), FillNa(cells, Mean(cells))))
    ELSE f

RECURSIVE CoerceImputeAll(_, _)
CoerceImputeAll(f, names) ==
    IF names = <<>> THEN f
    ELSE CoerceImputeAll(CoerceImpute(f, Head(names)), Tail(names))

AppNumeric(f) == Ok(CoerceImputeAll(f, required_numeric_cols))

AppAttBins == <<IntCell(0), IntCell(60), IntCell(80), IntCell(100)>>
AppAttLabels == <<"Low Attendance", "Medium Attendance", "High Attendance">>
AppSmBins(cells) ==
    <<IntCell(-1), IntCell(1), IntCell(3), IntCell(6), PlusOne(Max(cells))>>
AppSmLabels == <<"Very Low (<1h)", "Low (1-3h)", "Medium (3-6h)", "High (>6h)">>

(* pd.cut(...).astype(str).replace('nan', 'Unknown'): a column of strings *)
UnknownFill(r, name) ==
    IF r.st # "ok" THEN r
    ELSE LET c == GetCol(r.df, name)
         IN  Ok(SetCol(r.df, Column(name, "object",
                   Replace(CatAsStr(c.cells), Lbl("nan"), Lbl("Unknown")))))

AppAtt(f) ==
    IF HasCol(f, "average_class_attendance")
    THEN UnknownFill(Ok(SetCol(f, CutColumn("attendance_level",
                        GetCol(f, "average_class_attendance").cells,
                        AppAttBins, AppAttLabels, FALSE, TRUE))),
                     "attendance_level")
    ELSE Ok(f)

AppSm(f) ==
    IF HasCol(f, "social_media_hours_daily")
    THEN LET cells == GetCol(f, "social_media_hours_daily").cells
         IN  UnknownFill(CutOrRaise(f, "social_media_category", cells,
                                    AppSmBins(cells), AppSmLabels, FALSE),
                         "social_media_category")
    ELSE Ok(f)

-----------------------------------------------------------------------------
(* The body of load_and_clean_data as one function of the source: the      *)
(* steps above in program order, an exception or a return ending it.       *)

Bind(r, F(_)) == IF r.st = "ok" THEN F(r.df) ELSE r

SPAttBlock(f) ==
    IF HasCol(f, "Attendance")
    THEN Bind(Bind(Bind(SPAttCoerce(f), SPAttImpute), SPAttCut),
              LAMBDA g : ModeFill(g, "Attendance_Category"))
    ELSE Ok(f)
SPSmBlock(f) ==
    IF SPBandable(f, "Social Media Hours")
    THEN Bind(SPSmCut(f), LAMBDA g : ModeFill(g, "Social Media Category"))
    ELSE Ok(f)
SPFiBlock(f) ==
    IF SPBandable(f, "Family Income")
    THEN Bind(SPFiCut(f), LAMBDA g : ModeFill(g, "Family Income Category"))
    ELSE Ok(f)

SPBody(f) ==
    Bind(Bind(Bind(Bind(Bind(SPRename(f), SPCgpa), SPAttBlock), SPSmBlock),
              SPFiBlock), SPFill)
SPLoad(s) == Bind(SPRead(s), SPBody)

(* faulty variant: the bands derived before the numeric columns are imputed *)
AppBodyBandsFirst(f) == Bind(Bind(Bind(AppFilter(f), AppAtt), AppSm), AppNumeric)
AppBody(f) == Bind(Bind(Bind(AppFilter(f), AppNumeric), AppAtt), AppSm)
AppLoad(s) == Bind(AppRead(s), AppBody)

(* load_and_clean_data of the program that runs, and its part after the read *)
Load(v, s) == IF v = "SP" THEN SPLoad(s) ELSE AppLoad(s)
Body(v, f) == IF v = "SP" THEN SPBody(f) ELSE AppBody(f)

-----------------------------------------------------------------------------
(* What the pages compute from the loaded table.                           *)

(* the entries of cells at the rows where flags holds *)
Where(cells, flags) ==
    LET pos == KeptPositions(flags) IN [i \in 1..Len(pos) |-> cells[pos[i]]]

(* df.groupby(key, observed=observed)[val].mean().reset_index(): one row   *)
(* per group key, the keys sorted (a categorical key: in the order of its  *)
(* categories, every category when observed is False; any other key: the   *)
(* values that occur, in string order; null keys are dropped), with the    *)
(* mean of the non-null val entries of the group (NaN when there is none)  *)
GroupByMean(f, key, val, observed) ==
    LET k    == GetCol(f, key)
        v    == GetCol(f, val).cells
        Present(w) == \E i \in 1..Len(k.cells) : k.cells[i] = Lbl(w)
        keys == IF k.dtype = "category"
                THEN (IF observed THEN SelectSeq(k.cats, Present) ELSE k.cats)
                ELSE SortedUnique(k.cells)
    IN  [g \in 1..Len(keys) |->
            [key  |-> keys[g],
             mean |-> Mean(Where(v, [i \in 1..Len(v) |-> k.cells[i] = Lbl(keys[g])]))]]

(* sort_values(by=val, ascending=False): larger means first, NaN last, *)
(* rows with equal means in their former order                         *)
RECURSIVE SortDescending(_)
SortDescending(groups) ==
    IF Len(groups) <= 1 THEN groups
    ELSE LET n      == Len(groups)
             last_  == groups[n]
             front  == SortDescending(SubSeq(groups, 1, n - 1))
             Before(g) == IsNum(g.mean) /\ (IsNaN(last_.mean) \/ RLe(last_.mean, g.mean))
             Stays(g)  == IsNaN(last_.mean) \/ Before(g)
             NotStays(g) == ~Stays(g)
         IN  SelectSeq(front, Stays) \o <<last_>> \o SelectSeq(front, NotStays)

(* sign * sqrt(q) for a rational q in [0, 1]: a number cell when q is 0 or *)
(* 1, else the root kept exact                                             *)
Root(sign, q) ==
    IF q.n = 0 THEN IntCell(0)
    ELSE IF q.n = q.d THEN IntCell(sign)
    ELSE [k |-> "root", n |-> sign * q.n, d |-> q.d, s |-> <<>>]

(* one entry of DataFrame.corr() (Pearson, min_periods=1) for the columns  *)
(* x and y: over the rows where both are non-null, cov / sqrt(var * var);  *)
(* NaN when there is no such row or when the divisor is 0                  *)
CorrEntry(x, y) ==
    LET both == [i \in 1..Len(x) |-> IsNum(x[i]) /\ IsNum(y[i])]
        xs   == Where(x, both)
        ys   == Where(y, both)
        n    == Len(xs)
        dx   == [i \in 1..n |-> RSub(xs[i], Mean(xs))]
        dy   == [i \in 1..n |-> RSub(ys[i], Mean(ys))]
        sxx  == SumCells([i \in 1..n |-> RMul(dx[i], dx[i])])
        syy  == SumCells([i \in 1..n |-> RMul(dy[i], dy[i])])
        sxy  == SumCells([i \in 1..n |-> RMul(dx[i], dy[i])])
    IN  IF n < 1 \/ sxx.n = 0 \/ syy.n = 0 THEN NaN
        ELSE Root(IF sxy.n < 0 THEN -1 ELSE 1, RMul(RDiv(sxy, sxx), RDiv(sxy, syy)))

(* df[names].corr(): ValueError on a column of strings; the entries on and *)
(* below the diagonal are computed, those above are copies of them         *)
Corr(f, names) ==
    LET n == Len(names)
        c == [i \in 1..n |-> GetCol(f, names[i])]
    IN  IF \E i \in 1..n : ~IsNumericDtype(c[i].dtype) THEN Raise("ValueError")
        ELSE [st |-> "ok", err |-> "",
              m  |-> [i \in 1..n |-> [j \in 1..n |->
                         IF j <= i THEN CorrEntry(c[i].cells, c[j].cells)
                         ELSE CorrEntry(c[j].cells, c[i].cells)]]]

HasCols(f, names) == \A name \in names : HasCol(f, name)
(* what a page computed: the group means of its bar chart, its correlation *)
(* matrix, or the exception that ended it                                  *)
View(groups, corr) == [st |-> "ok", err |-> "", groups |-> groups, corr |-> corr]
NoView(e) == [st |-> "raise", err |-> e, groups |-> <<>>, corr |-> <<>>]

(* StudentPerformance.py page_1_overview past the load: average CGPA by    *)
(* Gender, largest average first                                           *)
SPPage1(f) ==
    IF HasCols(f, {"CGPA", "Gender"})
    THEN View(SortDescending(GroupByMean(f, "Gender", "CGPA", FALSE)), <<>>)
    ELSE View(<<>>, <<>>)
(* page_2_study_habits: the correlation heatmap *)
SPPage2(f) ==
    IF HasCols(f, {"Study Hours per Day", "CGPA", "Attendance_Category",
                   "Attendance_numeric", "Study Sessions per Day"})
    THEN LET r == Corr(f, <<"Study Hours per Day", "Attendance_numeric",
                            "Study Sessions per Day", "CGPA">>)
         IN  IF r.st = "ok" THEN View(<<>>, r.m) ELSE NoView(r.err)
    ELSE View(<<>>, <<>>)
(* page_3_non_academic: average CGPA by Social Media Category *)
SPPage3(f) ==
    IF HasCols(f, {"Social Media Category", "CGPA", "Scholarship Status",
                   "Family Income Category"})
    THEN View(GroupByMean(f, "Social Media Category", "CGPA", FALSE), <<>>)
    ELSE View(<<>>, <<>>)

(* app.py page_1_overview(df): the metrics read three columns unguarded *)
AppPage1(f) ==
    IF ~HasCols(f, {"current_cgpa", "current_semester", "gender"})
    THEN NoView("KeyError")
    ELSE View(GroupByMean(f, "gender", "current_cgpa", TRUE), <<>>)
(* page_2_study_habits(df): the metrics read four columns unguarded; then  *)
(* average CGPA by attendance_level and the correlation heatmap            *)
AppPage2(f) ==
    IF ~HasCols(f, {"study_hours_daily", "average_class_attendance",
                    "attendance_level", "current_cgpa"})
    THEN NoView("KeyError")
    ELSE LET r == Corr(f, <<"study_hours_daily", "average_class_attendance",
                            "current_cgpa">>)
         IN  IF r.st = "ok"
             THEN View(GroupByMean(f, "attendance_level", "current_cgpa", TRUE), r.m)
             ELSE NoView(r.err)
(* page_3_non_academic(df): the metrics read four columns unguarded; then  *)
(* average CGPA by social_media_category                                   *)
AppPage3(f) ==
    IF ~HasCols(f, {"meritorious_scholarship", "current_cgpa",
                    "social_media_category", "income_group"})
    THEN NoView("KeyError")
    ELSE View(GroupByMean(f, "social_media_category", "current_cgpa", TRUE), <<>>)

Render(page, f) ==
    CASE page = "page_1_overview" -> IF variant = "SP" THEN SPPage1(f) ELSE AppPage1(f)
      [] page = "page_2_study_habits" -> IF variant = "SP" THEN SPPage2(f) ELSE AppPage2(f)
      [] page = "page_3_non_academic" -> IF variant = "SP" THEN SPPage3(f) ELSE AppPage3(f)

-----------------------------------------------------------------------------
(* Inputs: the source files the pipeline is run on.                        *)

MaxRows == 3

EncOk == [utf8 |-> "ok", latin1 |-> "ok", cp1252 |-> "ok"]
EncLatin1 == [utf8 |-> "UnicodeDecodeError", latin1 |-> "ok", cp1252 |-> "ok"]
EncMissing == [utf8 |-> "FileNotFoundError", latin1 |-> "FileNotFoundError",
               cp1252 |-> "FileNotFoundError"]
(* a read that fails for another reason than the decoding (the file is     *)
(* locked or being replaced) while a later read succeeds                   *)
EncIoUtf8 == [utf8 |-> "OSError", latin1 |-> "ok", cp1252 |-> "ok"]
EncIoLatin1 == [utf8 |-> "UnicodeDecodeError", latin1 |-> "OSError", cp1252 |-> "ok"]

(* cell texts, one token per character (gender values: one word) *)
CgpaTexts == {<<"3", ".", "5">>, <<"2", ".", "8">>, <<>>}
GenderTexts == {<<"Male">>, <<"Female">>, <<>>}
AttTexts == {<<"0">>, <<"7", "0">>, <<"7", "0", ".", "0", "1">>, <<"8", "5", "%">>,
             <<"1", "0", "0">>, <<"1", "0", "1">>, <<"-", "1">>, <<>>}
SmTexts == {<<"0">>, <<"2">>, <<"5">>, <<"6">>, <<"-", "2">>, <<>>, <<"x">>}
FiTexts == {<<"0">>, <<"5", "0", "0", "0", "0">>, <<"1", "5", "0", "0", "0", "0">>,
            <<"2", "0", "0", "0", "0", "0">>, <<"-", "1">>, <<>>}
YearTexts == {<<"2", "0", "2", "1">>, <<"2", "0", "2", "0">>, <<>>}
AppAttTexts == {<<"0">>, <<"6", "0">>, <<"7", "9", ".", "5">>, <<"8", "0">>,
                <<"1", "0", "0">>, <<"1", "0", "1">>, <<>>}
AppSmTexts == {<<"0">>, <<"1">>, <<"3">>, <<"6">>, <<"7">>, <<"-", "2">>, <<"x">>}

Source(enc, header, n, data) ==
    [enc |-> enc, header |-> header, nrows |-> n, data |-> data]

(* the files with one column h of texts T, and with two columns *)
Files1(enc, h, T, maxRows) ==
    UNION {{Source(enc, <<h>>, n, <<c>>) : c \in [1..n -> T]} : n \in 0..maxRows}
Files2(enc, h1, T1, h2, T2, maxRows) ==
    UNION {{Source(enc, <<h1, h2>>, n, <<c1, c2>>) :
               c1 \in [1..n -> T1], c2 \in [1..n -> T2]} : n \in 0..maxRows}

CgpaHeader == "What is your current CGPA?"
(* files whose header holds an alias next to the name it is renamed to *)
SPAliasFiles ==
    {Source(EncOk, <<CgpaHeader, h[1], h[2]>>, 1, <<<<<<"3">>>>, <<h[3]>>, <<h[3]>>>>) :
        h \in {<<"Average attendance on class", "Attendance", <<"8", "0">>>>,
               <<"How many hour do you spent daily in social media?",
                 "Social Media Hours", <<"6">>>>,
               <<"What is your monthly family income?", "Family Income",
                 <<"2", "0", "0", "0", "0", "0">>>>,
               <<"Do you have personal Computer?", "PC Status", <<"1">>>>}}
    \cup {Source(EncOk, <<CgpaHeader, "CGPA">>, 1, <<<<<<"3">>>>, <<<<"3">>>>>>)}
SPFiles ==
    Files1(EncOk, CgpaHeader, CgpaTexts, MaxRows)
    \cup Files2(EncOk, CgpaHeader, {<<"3", ".", "5">>, <<>>},
                "Gender", GenderTexts, MaxRows)
    \cup Files2(EncOk, CgpaHeader, {<<"3">>},
                "Average attendance on class", AttTexts, MaxRows)
    \cup Files2(EncOk, CgpaHeader, {<<"3">>},
                "How many hour do you spent daily in social media?", SmTexts, MaxRows)
    \cup Files2(EncOk, CgpaHeader, {<<"3">>},
                "What is your monthly family income?", FiTexts, MaxRows)
    \cup Files1(EncOk, "Gender", GenderTexts, 1)
    \cup Files2(EncLatin1, CgpaHeader, CgpaTexts, "Gender", GenderTexts, 1)
    \cup Files2(EncMissing, CgpaHeader, CgpaTexts, "Gender", GenderTexts, 1)
    \cup Files1(EncIoUtf8, CgpaHeader, CgpaTexts, 1)
    \cup Files2(EncOk, "Age", {<<"2", "0">>}, CgpaHeader, CgpaTexts, 1)
    \cup Files2(EncOk, "Gender", GenderTexts, CgpaHeader, CgpaTexts, 1)
    \cup SPAliasFiles
    \cup Files1(EncIoLatin1, CgpaHeader, CgpaTexts, 1)

AppFiles ==
    Files1(EncOk, "admission_year", YearTexts, MaxRows)
    \cup Files2(EncOk, "admission_year", YearTexts \ {<<>>},
                "current_cgpa", CgpaTexts, MaxRows)
    \cup Files1(EncOk, "average_class_attendance", AppAttTexts, MaxRows)
    \cup Files1(EncOk, "social_media_hours_daily", AppSmTexts, MaxRows)
    \cup Files1(EncLatin1, "current_cgpa", CgpaTexts, 1)
    \cup Files1(EncMissing, "current_cgpa", CgpaTexts, 1)
    \cup Files1(EncIoUtf8, "current_cgpa", CgpaTexts, 1)
    \cup Files1(EncIoLatin1, "current_cgpa", CgpaTexts, 1)
    \cup Files2(EncOk, "admission_year", YearTexts \ {<<>>},
                "average_class_attendance", {<<"7", "0">>, <<>>}, 2)
    \cup Files2(EncOk, "admission_year", YearTexts \ {<<>>},
                "social_media_hours_daily", {<<"7">>}, 1)

-----------------------------------------------------------------------------
(* One run of load_and_clean_data, statement by statement.                 *)

SessionIdle ==
    /\ file = <<>> /\ cache = <<>> /\ calls = 0
    /\ bodyRuns = 0 /\ writes = 0 /\ last = <<>>

Init ==
    /\ variant \in {"SP", "APP"}
    /\ src \in (IF variant = "SP" THEN SPFiles ELSE AppFiles)
    /\ df = EmptyFrame
    /\ pc = (IF variant = "SP" THEN "read" ELSE "app_read")
    /\ err = ""
    /\ SessionIdle

(* the step gave r: go on at next, return, or leave with the exception *)
Goto(r, next) ==
    /\ df' = (IF r.st = "raise" THEN df ELSE r.df)
    /\ pc' = (IF r.st = "ok" THEN next ELSE IF r.st = "return" THEN "done" ELSE "error")
    /\ err' = r.err
    /\ UNCHANGED <<variant, src, file, cache, calls, bodyRuns, writes, last>>

SPReadStep == pc = "read" /\ Goto(SPRead(src), "rename")
SPRenameStep == pc = "rename" /\ Goto(SPRename(df), "cgpa")
SPCgpaStep == pc = "cgpa" /\ Goto(SPCgpa(df), "att_coerce")
SPAttCoerceStep ==
    /\ pc = "att_coerce"
    /\ IF HasCol(df, "Attendance") THEN Goto(SPAttCoerce(df), "att_impute")
       ELSE Goto(Ok(df), "sm_cut")
SPAttImputeStep == pc = "att_impute" /\ Goto(SPAttImpute(df), "att_cut")
SPAttCutStep == pc = "att_cut" /\ Goto(SPAttCut(df), "att_mode")
SPAttModeStep == pc = "att_mode" /\ Goto(ModeFill(df, "Attendance_Category"), "sm_cut")
SPSmCutStep ==
    /\ pc = "sm_cut"
    /\ IF SPBandable(df, "Social Media Hours") THEN Goto(SPSmCut(df), "sm_mode")
       ELSE Goto(Ok(df), "fi_cut")
SPSmModeStep == pc = "sm_mode" /\ Goto(ModeFill(df, "Social Media Category"), "fi_cut")
SPFiCutStep ==
    /\ pc = "fi_cut"
    /\ IF SPBandable(df, "Family Income") THEN Goto(SPFiCut(df), "fi_mode")
       ELSE Goto(Ok(df), "fill")
SPFiModeStep == pc = "fi_mode" /\ Goto(ModeFill(df, "Family Income Category"), "fill")
SPFillStep == pc = "fill" /\ Goto(SPFill(df), "done")

AppReadStep == pc = "app_read" /\ Goto(AppRead(src), "app_filter")
AppFilterStep == pc = "app_filter" /\ Goto(AppFilter(df), "app_numeric")
AppNumericStep == pc = "app_numeric" /\ Goto(AppNumeric(df), "app_att")
AppAttStep == pc = "app_att" /\ Goto(AppAtt(df), "app_sm")
AppSmStep == pc = "app_sm" /\ Goto(AppSm(df), "done")

Next ==
    \/ SPReadStep \/ SPRenameStep \/ SPCgpaStep
    \/ SPAttCoerceStep \/ SPAttImputeStep \/ SPAttCutStep \/ SPAttModeStep
    \/ SPSmCutStep \/ SPSmModeStep \/ SPFiCutStep \/ SPFiModeStep \/ SPFillStep
    \/ AppReadStep \/ AppFilterStep \/ AppNumericStep \/ AppAttStep \/ AppSmStep

Spec == Init /\ [][Next]_vars

-----------------------------------------------------------------------------
(* A session: every rerun of the script calls load_and_clean_data(         *)
(* DATA_FILE) through @st.cache_data, whose key is the path argument; the  *)
(* content stored at that path may change between calls.                   *)

MaxCalls == 3

(* contents DATA_FILE may hold: tables with the columns the pages read,    *)
(* and a missing file                                                      *)
SPSessionFiles ==
    <<Source(EncOk, <<CgpaHeader, "Gender">>, 2,
             <<<<<<"3", ".", "5">>, <<>>>>, <<<<"Male">>, <<"Female">>>>>>),
      Source(EncOk, <<CgpaHeader, "Gender">>, 1,
             <<<<<<"2", ".", "8">>>>, <<<<"Female">>>>>>),
      Source(EncMissing, <<>>, 0, <<>>),
      Source(EncOk, <<CgpaHeader, "Average attendance on class">>, 2,
             <<<<<<"3">>, <<"3">>>>, <<<<"8", "5", "%">>, <<>>>>>>),
      Source(EncOk, <<CgpaHeader, "Gender">>, 3,
             <<<<<<"3", ".", "5">>, <<>>, <<"2", ".", "8">>>>,
               <<<<"Male">>, <<"Female">>, <<"Male">>>>>>),
      Source(EncOk, <<CgpaHeader, "How many hour do you spent daily in social media?",
                      "Do you have meritorious scholarship ?",
                      "What is your monthly family income?">>, 3,
             <<<<<<"3">>, <<"2">>, <<"4">>>>,
               <<<<"6">>, <<"0">>, <<"6">>>>,
               <<<<"Yes">>, <<"No">>, <<"Yes">>>>,
               <<<<"2", "0", "0", "0", "0", "0">>, <<"4", "0", "0", "0", "0">>,
                 <<"9", "0", "0", "0", "0">>>>>>),
      Source(EncOk, <<CgpaHeader, "How many hour do you study daily?",
                      "Average attendance on class",
                      "How many times do you seat for study in a day?">>, 3,
             <<<<<<"3">>, <<"2">>, <<"4">>>>,
               <<<<"2">>, <<"1">>, <<"5">>>>,
               <<<<"8", "0">>, <<"6", "0">>, <<"9", "0", "%">>>>,
               <<<<"2">>, <<"2">>, <<"2">>>>>>),
      Source(EncOk, <<CgpaHeader, "Do you have personal Computer?">>, 2,
             <<<<<<"3">>, <<"2">>>>, <<<<"Yes">>, <<"No">>>>>>),
      Source(EncOk, <<CgpaHeader, "How many hour do you spent daily in social media?",
                      "Do you have meritorious scholarship ?",
                      "What is your monthly family income?">>, 2,
             <<<<<<"3">>, <<"2">>>>,
               <<<<"6">>, <<"x">>>>,
               <<<<"Yes">>, <<"No">>>>,
               <<<<"2", "0", "0", "0", "0", "0">>, <<"4", "0", "0", "0", "0">>>>>>)>>
AppSessionFiles ==
    <<Source(EncOk, <<"admission_year", "current_cgpa">>, 2,
             <<<<<<"2", "0", "2", "1">>, <<"2", "0", "2", "0">>>>,
               <<<<"3", ".", "5">>, <<"2", ".", "8">>>>>>),
      Source(EncOk, <<"admission_year", "current_cgpa">>, 1,
             <<<<<<"2", "0", "2", "1">>>>, <<<<"2", ".", "8">>>>>>),
      Source(EncMissing, <<>>, 0, <<>>),
      Source(EncOk, <<"average_class_attendance">>, 2,
             <<<<<<"8", "0">>, <<"1", "0", "0">>>>>>),
      Source(EncOk, <<"study_hours_daily", "average_class_attendance",
                      "current_cgpa">>, 3,
             <<<<<<"2">>, <<"1">>, <<"5">>>>,
               <<<<"9", "0">>, <<"5", "0">>, <<"7", "0">>>>,
               <<<<"3">>, <<"2">>, <<"4">>>>>>),
      Source(EncOk, <<"study_hours_daily", "average_class_attendance",
                      "current_cgpa">>, 2,
             <<<<<<"2">>, <<>>>>,
               <<<<"9", "0">>, <<"5", "0">>>>,
               <<<<"3">>, <<"2">>>>>>),
      Source(EncOk, <<"social_media_hours_daily", "current_cgpa",
                      "meritorious_scholarship", "income_group">>, 3,
             <<<<<<"0">>, <<"7">>, <<"7">>>>,
               <<<<"3">>, <<"2">>, <<"4">>>>,
               <<<<"Yes">>, <<"No">>, <<"Yes">>>>,
               <<<<"Other">>, <<"Other">>, <<"Other">>>>>>),
      Source(EncOk, <<"current_cgpa", "current_semester", "gender">>, 2,
             <<<<<<"3">>, <<"2">>>>, <<<<"1">>, <<"2">>>>,
               <<<<"Male">>, <<"Female">>>>>>),
      Source(EncOk, <<"admission_year", "current_cgpa">>, 1,
             <<<<<<"2", "0", "2", "0">>>>, <<<<"3", ".", "5">>>>>>)>>
SessionFiles == IF variant = "SP" THEN SPSessionFiles ELSE AppSessionFiles
FileIds == 1..Len(SPSessionFiles)
Pages == {"page_1_overview", "page_2_study_habits", "page_3_non_academic"}

(* faulty variant: no entry is ever found, every call runs the body *)
NeverHit(c) == FALSE
(* st.cache_data: an entry is stored for the path argument *)
Hit(c) == c # <<>>

(* faulty variant: the page runs on an empty table as well *)
ShownAlways(page, t) ==
    [page |-> page, st |-> "returned", given |-> t, df |-> t, selection |-> page,
     view |-> Render(page, t)]
(* the caller got the table t and ran the page on it (app.py: main runs no *)
(* page on an empty table); the page reads the table and leaves it as it   *)
(* was given                                                               *)
Shown(page, t) ==
    LET none == variant = "APP" /\ IsEmptyFrame(t)
    IN  [page  |-> IF none THEN "none" ELSE page, st |-> "returned",
         given |-> t, df |-> t, selection |-> page,
         view  |-> IF none THEN View(<<>>, <<>>) ELSE Render(page, t)]
(* load raised: the exception ends the page (app.py: ends main before a    *)
(* page is called)                                                         *)
NotShown(page) ==
    [page |-> IF variant = "APP" THEN "none" ELSE page, st |-> "raised",
     given |-> EmptyFrame, df |-> EmptyFrame, selection |-> page,
     view |-> View(<<>>, <<>>)]

(* load_and_clean_data(DATA_FILE) as the page sees it: the stored table on *)
(* a hit; otherwise the body runs on the current content, and its result   *)
(* is stored unless it raised; then the page renders the table             *)
CachedLoad(page) ==
    /\ calls < MaxCalls
    /\ calls' = calls + 1
    /\ IF Hit(cache)
       THEN /\ last' = Shown(page, cache[1])
            /\ UNCHANGED <<cache, bodyRuns, writes>>
       ELSE LET r == Load(variant, SessionFiles[file])
            IN  /\ bodyRuns' = [bodyRuns EXCEPT ![file] = @ + 1]
                /\ IF r.st = "raise"
                   THEN /\ last' = NotShown(page)
                        /\ UNCHANGED <<cache, writes>>
                   ELSE /\ last' = Shown(page, r.df)
                        /\ cache' = <<r.df>>
                        /\ writes' = writes + 1
    /\ UNCHANGED <<variant, src, df, pc, err, file>>

page_1_overview == variant = "SP" /\ CachedLoad("page_1_overview")
page_2_study_habits == variant = "SP" /\ CachedLoad("page_2_study_habits")
page_3_non_academic == variant = "SP" /\ CachedLoad("page_3_non_academic")
(* app.py main: load, return on an empty table, else the selected page *)
main == variant = "APP" /\ \E selection \in Pages : CachedLoad(selection)

(* calculate_plo_metrics(df) on the table a page holds: with a PC Status   *)
(* column it assigns df['PC Status_Binary'] in that table.  The source     *)
(* breaks off inside the assigned expression, so its values are any 0 / 1  *)
(* column.                                                                 *)
calculate_plo_metrics ==
    /\ variant = "SP" /\ last # <<>> /\ last.st = "returned"
    /\ last.page # "calculate_plo_metrics"
    /\ IF HasCol(last.df, "PC Status")
       THEN \E b \in [1..NRows(last.df) -> {0, 1}] :
               last' = [last EXCEPT
                          !.page = "calculate_plo_metrics", !.given = last.df,
                          !.df = SetCol(last.df,
                                   Column("PC Status_Binary", "int64",
                                          [i \in 1..NRows(last.df) |-> IntCell(b[i])]))]
       ELSE last' = [last EXCEPT !.page = "calculate_plo_metrics", !.given = last.df]
    /\ UNCHANGED <<variant, src, df, pc, err, file, cache, calls, bodyRuns, writes>>

(* the environment replaces the content stored at DATA_FILE *)
FileChanges ==
    /\ \E f \in FileIds \ {file} : file' = f
    /\ UNCHANGED <<variant, src, df, pc, err, cache, calls, bodyRuns, writes, last>>

InitCache ==
    /\ variant \in {"SP", "APP"}
    /\ src = <<>> /\ df = EmptyFrame /\ pc = "idle" /\ err = ""
    /\ file \in FileIds
    /\ cache = <<>> /\ calls = 0 /\ writes = 0
    /\ bodyRuns = [i \in FileIds |-> 0]
    /\ last = <<>>

NextCache ==
    \/ page_1_overview \/ page_2_study_habits \/ page_3_non_academic
    \/ main \/ calculate_plo_metrics \/ FileChanges

SpecCache == InitCache /\ [][NextCache]_vars

-----------------------------------------------------------------------------
(* Properties.                                                             *)

Cells(name) == GetCol(df, name).cells
RowsOf(name) == 1..Len(Cells(name))
(* the table pd.read_csv gave for the source of this run *)
Input == ParseCsv(src)
Done == pc = "done"

(* v <= b and v > b for a number cell v and an integer b *)
AtMost(v, b) == v.n <= b * v.d
Above(v, b) == v.n > b * v.d

(* C2: with the edges [0, 70, 85, 100], right-closed and the lowest edge   *)
(* included, every attendance value in [0, 70] is labelled 'Low (<=70%)',  *)
(* every value in (70, 85] 'Medium (71-85%)' and every value in (85, 100]  *)
(* 'High (>85%)': a value equal to an edge goes to the lower bucket.       *)
C2_AttendanceRightClosed ==
    HasCol(df, "Attendance_Category") =>
        \A i \in RowsOf("Attendance_numeric") :
            LET v == Cells("Attendance_numeric")[i]
                b == Cells("Attendance_Category")[i]
            IN  IsNum(v) =>
                  /\ (v.n >= 0 /\ AtMost(v, 70)) => b = Lbl("Low (<=70%)")
                  /\ (Above(v, 70) /\ AtMost(v, 85)) => b = Lbl("Medium (71-85%)")
                  /\ (Above(v, 85) /\ AtMost(v, 100)) => b = Lbl("High (>85%)")

(* the run has banded a 70.0 as Low and a 70.01 as Medium *)
C2_Witness ==
    /\ Done /\ HasCol(df, "Attendance_Category")
    /\ \E i, j \in RowsOf("Attendance_numeric") :
          /\ Cells("Attendance_numeric")[i] = IntCell(70)
          /\ Cells("Attendance_Category")[i] = Lbl("Low (<=70%)")
          /\ Cells("Attendance_numeric")[j] = Rat(7001, 100)
          /\ Cells("Attendance_Category")[j] = Lbl("Medium (71-85%)")

(* m is the arithmetic mean of the numbers among cells: m * count = sum,   *)
(* over the common denominator D of the entries                            *)
RECURSIVE DenProduct(_)
DenProduct(cells) ==
    IF Len(cells) = 0 THEN 1
    ELSE LET D == DenProduct(Tail(cells))
         IN  (Head(cells).d * D) \div GCD(Head(cells).d, D)
RECURSIVE ScaledSum(_, _)
ScaledSum(cells, D) ==
    IF Len(cells) = 0 THEN 0
    ELSE (IF IsNum(Head(cells)) THEN Head(cells).n * (D \div Head(cells).d) ELSE 0)
         + ScaledSum(Tail(cells), D)
IsMeanOf(m, cells) ==
    LET D == DenProduct(cells)
        count == Cardinality({i \in 1..Len(cells) : IsNum(cells[i])})
    IN  IsNum(m) /\ m.n * D * count = ScaledSum(cells, D) * m.d

(* before holds the column after coercion, after the column after the     *)
(* fill: non-null entries kept, null entries set to the mean of the        *)
(* entries that were non-null (left null when there was none)              *)
MeanImputed(before, after) ==
    /\ Len(after) = Len(before)
    /\ \A i \in 1..Len(before) :
          IF IsNum(before[i]) THEN after[i] = before[i]
          ELSE IF \E j \in 1..Len(before) : IsNum(before[j])
               THEN IsMeanOf(after[i], before)
               ELSE IsNaN(after[i])

(* C4: every numeric field that load imputes (Attendance_numeric and CGPA  *)
(* in StudentPerformance.py, the four required numeric columns in app.py)  *)
(* has, after its fill, each null entry replaced by the mean of the        *)
(* entries that were non-null before the fill and every other entry        *)
(* unchanged.                                                              *)
C4_MeanImputation ==
    [][/\ SPAttImputeStep =>
            MeanImputed(Cells("Attendance_numeric"),
                        GetCol(df', "Attendance_numeric").cells)
       /\ (SPFillStep /\ HasCol(df, "CGPA")) =>
            MeanImputed(Cells("CGPA"), GetCol(df', "CGPA").cells)
       /\ AppNumericStep =>
            \A k \in 1..Len(required_numeric_cols) :
                HasCol(df, required_numeric_cols[k]) =>
                    MeanImputed(ToNumericCells(Cells(required_numeric_cols[k])),
                                GetCol(df', required_numeric_cols[k]).cells)]_vars

(* a run of StudentPerformance.py that filled the null attendance of the   *)
(* column [70, null, 100] with 85                                          *)
C4_Witness ==
    /\ pc = "att_cut"
    /\ Input.cols[2].cells = <<IntCell(70), NaN, IntCell(100)>>
    /\ Cells("Attendance_numeric") = <<IntCell(70), IntCell(85), IntCell(100)>>

(* the band rules: derived column, its numeric source, its declared        *)
(* labels, its lowest edge and its highest edge (top: 0 when the highest   *)
(* edge is max + 1 of the data, which no value exceeds)                    *)
BandRules ==
    <<[band |-> "Attendance_Category", source |-> "Attendance_numeric",
       labels |-> AttLabels, low |-> 0, fixedTop |-> TRUE, top |-> 100],
      [band |-> "Social Media Category", source |-> "Social Media Hours",
       labels |-> SmLabels, low |-> -1, fixedTop |-> FALSE, top |-> 0],
      [band |-> "Family Income Category", source |-> "Family Income",
       labels |-> FiLabels, low |-> 0, fixedTop |-> FALSE, top |-> 0],
      [band |-> "attendance_level", source |-> "average_class_attendance",
       labels |-> AppAttLabels, low |-> 0, fixedTop |-> TRUE, top |-> 100],
      [band |-> "social_media_category", source |-> "social_media_hours_daily",
       labels |-> AppSmLabels, low |-> -1, fixedTop |-> FALSE, top |-> 0]>>
RuleIds == 1..Len(BandRules)
LabelSet(r) == {Lbl(r.labels[j]) : j \in 1..Len(r.labels)}

(* C1: in the table load returns, every value of every derived band        *)
(* column is one of the declared labels of its rule (never null, never    *)
(* 'Unknown' or 'nan').                                                    *)
C1_BandsAreDeclaredLabels ==
    Done => \A k \in RuleIds :
               HasCol(df, BandRules[k].band) =>
                   \A i \in RowsOf(BandRules[k].band) :
                       Cells(BandRules[k].band)[i] \in LabelSet(BandRules[k])

(* C3: a value below the lowest edge of its rule gets the first label, a   *)
(* value above the highest edge the last label.                            *)
C3_OutOfRangeClamped ==
    Done => \A k \in RuleIds :
               LET r == BandRules[k]
               IN  HasCol(df, r.band) =>
                     \A i \in RowsOf(r.band) :
                        LET v == Cells(r.source)[i]
                        IN  IsNum(v) =>
                              /\ v.n < r.low * v.d
                                   => Cells(r.band)[i] = Lbl(r.labels[1])
                              /\ (r.fixedTop /\ Above(v, r.top))
                                   => Cells(r.band)[i] = Lbl(r.labels[Len(r.labels)])

(* C6: whenever a band column has been derived, its numeric source holds   *)
(* no null: the nulls were imputed before the band was computed.           *)
C6_ImputedBeforeBanding ==
    \A k \in RuleIds :
        HasCol(df, BandRules[k].band) => ~AnyNull(Cells(BandRules[k].source))

(* the most frequent non-null values of a column *)
MostFrequent(cells) ==
    {v \in {cells[i] : i \in 1..Len(cells)} :
        /\ ~IsNaN(v)
        /\ \A j \in 1..Len(cells) :
              IsNaN(cells[j]) \/ CountOf(cells, cells[j]) <= CountOf(cells, v)}
FirstAt(cells, v) == CHOOSE i \in 1..Len(cells) :
                        cells[i] = v /\ \A j \in 1..(i - 1) : cells[j] # v
GenderIn == GetCol(Input, "Gender").cells
GenderFilled == variant = "SP" /\ Done /\ HasCol(df, "Gender")

(* C5 as stated: every null Gender is replaced by the most frequent        *)
(* non-null value, the one met first in row order when several tie.        *)
C5_TieFirstEncountered ==
    GenderFilled =>
        \A i \in 1..Len(GenderIn) :
            (IsNaN(GenderIn[i]) /\ MostFrequent(GenderIn) # {}) =>
                /\ Cells("Gender")[i] \in MostFrequent(GenderIn)
                /\ \A w \in MostFrequent(GenderIn) :
                      FirstAt(GenderIn, Cells("Gender")[i]) <= FirstAt(GenderIn, w)

(* C5, amended: every null Gender is replaced by the most frequent         *)
(* non-null value, the smallest in string order when several tie; the      *)
(* non-null entries are kept, and a column without any value stays null.   *)
C5_TieSmallestString ==
    GenderFilled =>
        \A i \in 1..Len(GenderIn) :
            IF ~IsNaN(GenderIn[i]) THEN Cells("Gender")[i] = GenderIn[i]
            ELSE IF MostFrequent(GenderIn) = {} THEN IsNaN(Cells("Gender")[i])
            ELSE /\ Cells("Gender")[i] \in MostFrequent(GenderIn)
                 /\ \A w \in MostFrequent(GenderIn) :
                       StrRank(Cells("Gender")[i].s[1]) <= StrRank(w.s[1])

(* a run on the column ['Male', 'Female', null]: a tie, the null filled    *)
(* with 'Female'                                                           *)
C5_Witness ==
    /\ GenderFilled
    /\ GenderIn = <<Lbl("Male"), Lbl("Female"), NaN>>
    /\ Cells("Gender") = <<Lbl("Male"), Lbl("Female"), Lbl("Female")>>

(* the call gave the table f *)
Gave(r, f) == r.st \in {"ok", "return"} /\ r.df = f

(* C7: a second run of load on the same source gives the table the first   *)
(* run gave (same rows, order, imputed values and labels), and running     *)
(* the pipeline after the read on the table load returned gives that       *)
(* table again.                                                            *)
C7_DeterministicIdempotent ==
    Done => /\ Gave(Load(variant, src), df)
            /\ LET r == Load(variant, src)
               IN  (r.st \in {"ok", "return"}) => Gave(Body(variant, r.df), r.df)

(* a run of app.py that returned a table in which a null attendance was    *)
(* imputed and banded                                                      *)
C7_Witness ==
    /\ Done /\ variant = "APP" /\ HasCol(df, "attendance_level")
    /\ AnyNull(GetCol(Input, "average_class_attendance").cells)
    /\ ~AnyNull(Cells("average_class_attendance"))

(* app.py has read the source and is past the row filter *)
AppFiltered ==
    /\ variant = "APP"
    /\ pc \in {"app_numeric", "app_att", "app_sm", "done"}
    /\ (src.enc.utf8 = "ok" \/ src.enc.latin1 = "ok")
(* the rows of the input whose admission_year is the target year *)
TargetRows ==
    {i \in 1..NRows(Input) :
        LET y == GetCol(Input, "admission_year").cells[i]
        IN  IsNum(y) /\ y.n = TARGET_ADMISSION_YEAR * y.d}

(* C10: past the row filter of app.py the table holds exactly the input    *)
(* rows whose admission_year equals TARGET_ADMISSION_YEAR, in input order  *)
(* (every input row when the file has no admission_year column), and the   *)
(* filter raises no error.                                                 *)
C10_RowFilter ==
    /\ AppFiltered =>
         /\ \A k \in 1..(NRows(df) - 1) : df.index[k] < df.index[k + 1]
         /\ {df.index[k] : k \in 1..NRows(df)}
               = (IF HasCol(Input, "admission_year") THEN TargetRows
                  ELSE 1..NRows(Input))
         /\ HasCol(Input, "admission_year") =>
               \A k \in 1..NRows(df) :
                   Cells("admission_year")[k]
                       = GetCol(Input, "admission_year").cells[df.index[k]]
    /\ variant = "APP" => err # "KeyError"

(* a run of app.py on the years [2021, 2020, 2021] that kept rows 1 and 3 *)
C10_Witness ==
    /\ AppFiltered /\ Done /\ HasCol(Input, "admission_year")
    /\ GetCol(Input, "admission_year").cells
          = <<IntCell(2021), IntCell(2020), IntCell(2021)>>
    /\ df.index = <<1, 3>>

(* a run of app.py on a file without admission_year that kept all 3 rows *)
C10_WitnessNoColumn ==
    /\ AppFiltered /\ Done /\ ~HasCol(Input, "admission_year")
    /\ df.index = <<1, 2, 3>>

(* a call of load_and_clean_data happens in this step *)
Called == calls' = calls + 1

(* C8 as stated: the body runs and the entry is written at most once per   *)
(* distinct source.                                                        *)
C8_BodyAtMostOncePerSource ==
    /\ writes <= 1
    /\ \A i \in FileIds : bodyRuns[i] <= 1

(* C8, amended: the entry of the path is written at most once, by the      *)
(* first call whose body returns; from then on every call returns the      *)
(* stored table and the body does not run.  A call whose body raises       *)
(* writes nothing, and the next call runs the body again.                  *)
C8_WrittenOnceThenReused ==
    /\ [](writes <= 1 /\ (cache = <<>> <=> writes = 0))
    /\ [][/\ cache # <<>> =>
               /\ UNCHANGED <<cache, bodyRuns, writes>>
               /\ Called => (last'.st = "returned" /\ last'.df = cache[1])
          /\ (Called /\ cache = <<>>) =>
               /\ bodyRuns'[file] = bodyRuns[file] + 1
               /\ \/ last'.st = "raised" /\ UNCHANGED <<cache, writes>>
                  \/ /\ last'.st = "returned" /\ cache' = <<last'.df>>
                     /\ writes' = writes + 1]_vars

(* three calls, one run of the body: the second and third call were hits *)
C8_Witness ==
    /\ calls = 3 /\ writes = 1 /\ last.st = "returned"
    /\ \E i \in FileIds : bodyRuns[i] = 1 /\ \A j \in FileIds \ {i} : bodyRuns[j] = 0

(* a body that raised was run again by the next call *)
C8_WitnessRetry == \E i \in FileIds : bodyRuns[i] = 2 /\ writes = 0

(* C9: a call returns the table computed from the content the file holds   *)
(* at the time of the call.                                                *)
C9_ReturnsCurrentContent ==
    [][(Called /\ last'.st = "returned") =>
          Gave(Load(variant, SessionFiles[file]), last'.df)]_vars

-----------------------------------------------------------------------------
(* Reading the file.                                                       *)

(* one of the three encodings reads the file *)
SomeEncodingReads(s) ==
    s.enc.utf8 = "ok" \/ s.enc.latin1 = "ok" \/ s.enc.cp1252 = "ok"
Reading == pc \in {"read", "app_read"}

(* C11: whenever one of UTF-8, Latin-1, CP1252 reads the file, whatever    *)
(* exception the earlier attempts raised, the read step goes on to the     *)
(* next statement with the table parsed from the file.                     *)
C11_DecodingFallback ==
    [][(Reading /\ SomeEncodingReads(src)) =>
          (pc' \in {"rename", "app_filter"} /\ df' = ParseCsv(src))]_vars

(* C12: when no encoding reads the file, load ends with an exception: it   *)
(* neither goes on past the read nor returns a table.                      *)
C12_NoTableWhenUnreadable ==
    ~SomeEncodingReads(src) => pc \in {"read", "app_read", "error"}

-----------------------------------------------------------------------------
(* Numeric coercion.                                                       *)

(* the numbers the texts of the source column h stand for (NaN for a text  *)
(* that is no number), '%' removed first when strip holds                  *)
RawParsed(h, strip) ==
    LET t == src.data[CHOOSE j \in 1..Len(src.header) : src.header[j] = h]
    IN  [i \in 1..Len(t) |-> ParseNum(IF strip THEN StripPercent(t[i]) ELSE t[i])]
(* the entries of the rows the table kept *)
RowsTaken(cells) == [k \in 1..NRows(df) |-> cells[df.index[k]]]
AfterCgpa ==
    /\ variant = "SP"
    /\ pc \in {"att_coerce", "att_impute", "att_cut", "att_mode", "sm_cut",
               "sm_mode", "fi_cut", "fi_mode", "fill"}
Coercing ==
    \/ pc = "cgpa" /\ HasCol(df, "CGPA")
    \/ pc \in {"att_coerce", "app_numeric"}

(* C13: no coercion step raises; right after the coercion a cell holds the *)
(* number its text stands for, or null when the text is no number; after   *)
(* the imputation of the field the parsed cells keep their number and the  *)
(* others hold the mean of the parsed cells.                               *)
C13_CoercionNeverRaises ==
    /\ [](/\ AfterCgpa => Cells("CGPA") = RawParsed(CgpaHeader, FALSE)
          /\ (variant = "SP" /\ pc = "att_impute") =>
                Cells("Attendance_numeric")
                    = RawParsed("Average attendance on class", TRUE)
          /\ (variant = "SP" /\ pc = "att_cut") =>
                MeanImputed(RawParsed("Average attendance on class", TRUE),
                            Cells("Attendance_numeric"))
          /\ (variant = "SP" /\ Done) =>
                MeanImputed(RawParsed(CgpaHeader, FALSE), Cells("CGPA"))
          /\ (variant = "APP" /\ pc \in {"app_att", "app_sm", "done"}) =>
                \A j \in 1..Len(required_numeric_cols) :
                    HasCol(df, required_numeric_cols[j]) =>
                        MeanImputed(RowsTaken(RawParsed(required_numeric_cols[j], FALSE)),
                                    Cells(required_numeric_cols[j])))
    /\ [][Coercing => pc' # "error"]_vars

(* app.py on the social media hours ['x', '3', '7']: 'x' became null and   *)
(* was filled with the mean 5 of the two numbers, which kept their value   *)
C13_Witness ==
    /\ variant = "APP" /\ Done
    /\ src.header = <<"social_media_hours_daily">>
    /\ src.data = <<<<<<"x">>, <<"3">>, <<"7">>>>>>
    /\ Cells("social_media_hours_daily") = <<IntCell(5), IntCell(3), IntCell(7)>>

-----------------------------------------------------------------------------
(* Renaming.                                                               *)

(* the table with its columns in reverse order *)
Reversed(f) ==
    [f EXCEPT !.cols = [j \in 1..Len(f.cols) |-> f.cols[Len(f.cols) + 1 - j]]]
(* the raw header holds an alias and the name the alias is renamed to *)
AliasNextToTarget ==
    \E i, j \in 1..Len(src.header) :
        i # j /\ column_rename_map(src.header[i]) = src.header[j]

(* C14: after the renaming each column carries the canonical name of its   *)
(* header (its own header when the alias table has no such key) and its    *)
(* cells are untouched; renaming the reversed table gives the reversed     *)
(* result; and load does not fail on a header that holds an alias next to  *)
(* its canonical name.                                                     *)
C14_RenamingTotal ==
    /\ (variant = "SP" /\ pc = "cgpa") =>
          /\ Len(df.cols) = Len(src.header)
          /\ \A j \in 1..Len(df.cols) :
                /\ df.cols[j].name = column_rename_map(src.header[j])
                /\ df.cols[j].cells = Input.cols[j].cells
          /\ SPRename(Reversed(Input)).df = Reversed(df)
    /\ (variant = "SP" /\ SomeEncodingReads(src) /\ AliasNextToTarget) => pc # "error"

-----------------------------------------------------------------------------
(* A field without any value.                                              *)

(* the numeric fields load imputes *)
ImputedFields ==
    IF variant = "SP" THEN {"CGPA", "Attendance_numeric"}
    ELSE {required_numeric_cols[j] : j \in 1..Len(required_numeric_cols)}

(* C15: load returns no table in which an imputed numeric field with at    *)
(* least one row is entirely null: a field without any parsed value makes  *)
(* load fail instead (so no band is derived for it either).                *)
C15_AllNullFieldFails ==
    Done =>
        \A name \in ImputedFields :
            (HasCol(df, name) /\ NRows(df) > 0) =>
                \E i \in RowsOf(name) : ~IsNaN(Cells(name)[i])

-----------------------------------------------------------------------------
(* The pages' aggregations.                                                *)

(* a page has run on a loaded table and computed its view *)
Rendered == last # <<>> /\ last.st = "returned" /\ last.page \in Pages /\ last.view.st = "ok"
Keys(groups) == [g \in 1..Len(groups) |-> groups[g].key]

(* the banded field the page groups by, as its declared labels in order    *)
(* (the page's order / ordered_categories list); <<>> when the page groups *)
(* by no banded field                                                      *)
DeclaredOrder(page) ==
    CASE variant = "SP" /\ page = "page_3_non_academic" -> SmLabels
      [] variant = "APP" /\ page = "page_2_study_habits" -> AppAttLabels
      [] variant = "APP" /\ page = "page_3_non_academic" -> AppSmLabels \o <<"Unknown">>
      [] OTHER -> <<>>
Position(key, order) ==
    IF \E j \in 1..Len(order) : order[j] = key
    THEN CHOOSE j \in 1..Len(order) : order[j] = key
    ELSE Len(order) + 1

(* C16: the groups of a mean-CGPA-by-band aggregation come in the band's   *)
(* declared order (Low, Medium, High), never re-sorted alphabetically.     *)
C16_GroupsInDeclaredOrder ==
    (Rendered /\ DeclaredOrder(last.page) # <<>>) =>
        LET keys == Keys(last.view.groups)
        IN  \A i, j \in 1..Len(keys) :
               i < j => Position(keys[i], DeclaredOrder(last.page))
                          < Position(keys[j], DeclaredOrder(last.page))

(* the column whose values are the keys of the page's groups *)
GroupKey(page) ==
    CASE page = "page_1_overview" -> IF variant = "SP" THEN "Gender" ELSE "gender"
      [] page = "page_2_study_habits" -> "attendance_level"
      [] page = "page_3_non_academic" ->
            IF variant = "SP" THEN "Social Media Category" ELSE "social_media_category"
RowsWithKey(f, name, key) ==
    {i \in 1..NRows(f) : GetCol(f, name).cells[i] = Lbl(key)}

(* C17: a group-by-mean result holds a key only if some row of the table   *)
(* has that key, and holds every key that some row has: a band label       *)
(* without rows is left out, not emitted with a NaN mean (also for the     *)
(* observed=False grouping of 'Social Media Category').                    *)
C17_OnlyKeysWithRows ==
    (Rendered /\ last.view.groups # <<>>) =>
        LET keys == Keys(last.view.groups)
            name == GroupKey(last.page)
        IN  /\ \A g \in 1..Len(keys) : RowsWithKey(last.given, name, keys[g]) # {}
            /\ \A i \in 1..NRows(last.given) :
                  IsStr(GetCol(last.given, name).cells[i]) =>
                     \E g \in 1..Len(keys) : GetCol(last.given, name).cells[i] = Lbl(keys[g])
(* the categorical 'Social Media Category' was grouped while two of its    *)
(* declared labels have no row                                             *)
C17_Witness ==
    /\ Rendered /\ variant = "SP" /\ last.page = "page_3_non_academic"
    /\ Keys(last.view.groups) = <<"0 hours", ">5 hours">>
    /\ RowsWithKey(last.given, "Social Media Category", "1-2 hours") = {}
    /\ RowsWithKey(last.given, "Social Media Category", "3-5 hours") = {}

-----------------------------------------------------------------------------
(* End to end: the overview of a three-row file.                           *)

(* header ('What is your current CGPA?', 'Gender'), rows ('3.5', 'Male'),  *)
(* ('', 'Female'), ('2.8', 'Male')                                         *)
ScenarioFile ==
    Source(EncOk, <<CgpaHeader, "Gender">>, 3,
           <<<<<<"3", ".", "5">>, <<>>, <<"2", ".", "8">>>>,
             <<<<"Male">>, <<"Female">>, <<"Male">>>>>>)
OnScenario == variant = "SP" /\ SPSessionFiles[file] = ScenarioFile

(* C18: on that file load returns 3 records with CGPA 3.5, 3.15, 2.8 (the  *)
(* second imputed to the mean of the other two) and Gender unchanged, and  *)
(* the mean CGPA by Gender is 3.15 for Female and 3.15 for Male.           *)
C18_ScenarioOverview ==
    [][(OnScenario /\ cache = <<>> /\ page_1_overview) =>
          /\ last'.st = "returned" /\ last'.view.st = "ok"
          /\ NRows(last'.given) = 3
          /\ GetCol(last'.given, "CGPA").cells = <<Rat(35, 10), Rat(315, 100), Rat(28, 10)>>
          /\ GetCol(last'.given, "Gender").cells = <<Lbl("Male"), Lbl("Female"), Lbl("Male")>>
          /\ Len(last'.view.groups) = 2
          /\ {last'.view.groups[g] : g \in 1..2}
                = {[key |-> "Female", mean |-> Rat(315, 100)],
                   [key |-> "Male", mean |-> Rat(315, 100)]}]_vars
C18_Witness ==
    /\ OnScenario /\ Rendered /\ last.page = "page_1_overview"
    /\ cache = <<last.given>> /\ Len(last.view.groups) = 2

-----------------------------------------------------------------------------
(* Operations on the loaded table.                                         *)

(* an operation that runs on a loaded table has run *)
Operated ==
    last # <<>> /\ last.st = "returned" /\ last.page \in Pages \cup {"calculate_plo_metrics"}
ColumnNames(f) == {f.cols[j].name : j \in 1..Len(f.cols)}

(* C19: an operation after load (a page, its aggregation and correlation,  *)
(* calculate_plo_metrics) leaves the table it was given as it was: the     *)
(* same columns and the same value in every cell.                          *)
C19_TableNotMutated ==
    Operated =>
        /\ ColumnNames(last.df) = ColumnNames(last.given)
        /\ last.df = last.given

-----------------------------------------------------------------------------
(* The correlation matrix.                                                 *)

(* the fields of the page's heatmap (correlation_cols / corr_data) *)
CorrFields ==
    IF variant = "SP"
    THEN <<"Study Hours per Day", "Attendance_numeric", "Study Sessions per Day", "CGPA">>
    ELSE <<"study_hours_daily", "average_class_attendance", "current_cgpa">>

(* C20: the correlation matrix over the listed numeric fields is symmetric *)
(* and has exactly 1 in every diagonal entry whatever the data, a field    *)
(* that is constant over the rows included; over a single field it is      *)
(* [[1]].                                                                  *)
C20_CorrSymmetricUnitDiagonal ==
    (Rendered /\ last.view.corr # <<>>) =>
        LET m == last.view.corr
        IN  /\ Len(m) = Len(CorrFields)
            /\ \A i, j \in 1..Len(m) : m[i][j] = m[j][i]
            /\ \A i \in 1..Len(m) :
                  /\ m[i][i] = IntCell(1)
                  /\ Corr(last.given, <<CorrFields[i]>>).m = <<<<IntCell(1)>>>>

-----------------------------------------------------------------------------
(* Boundaries computed from the data.                                      *)

(* C21: the boundary list whose top boundary is max(source field) + 1 is   *)
(* strictly ascending for every input table ([-1, 0, 2, 5, max+1] and      *)
(* [0, 50000, 150000, max+1] in StudentPerformance.py, [-1, 1, 3, 6,       *)
(* max+1] in app.py), also for a small maximum, so that deriving the band  *)
(* never fails.                                                            *)
C21_DynamicBinsAscending ==
    /\ (variant = "SP" /\ pc = "sm_cut" /\ SPBandable(df, "Social Media Hours")
                       /\ ~IsDup(df, "Social Media Hours")) =>
          BinsIncrease(SmBins(Cells("Social Media Hours")))
    /\ (variant = "SP" /\ pc = "fi_cut" /\ SPBandable(df, "Family Income")
                       /\ ~IsDup(df, "Family Income")) =>
          BinsIncrease(FiBins(Cells("Family Income")))
    /\ (variant = "APP" /\ pc = "app_sm" /\ HasCol(df, "social_media_hours_daily")) =>
          BinsIncrease(AppSmBins(Cells("social_media_hours_daily")))
    /\ ~(pc = "error" /\ err = "ValueError")

-----------------------------------------------------------------------------
(* app.py: the attendance levels.                                          *)

(* the label the attendance v is to get: Low below 60, Medium from 60 to   *)
(* below 80, High from 80 up to and including 100                          *)
AttendanceLevelOf(v) ==
    IF v.n >= 80 * v.d /\ AtMost(v, 100) THEN "High Attendance"
    ELSE IF v.n >= 60 * v.d /\ v.n < 80 * v.d THEN "Medium Attendance"
    ELSE "Low Attendance"

(* C22: in app.py every average_class_attendance value v with              *)
(* 0 <= v <= 100 gets one of the three declared labels, 'Low Attendance'   *)
(* for v < 60, 'Medium Attendance' for 60 <= v < 80 and 'High Attendance'  *)
(* for 80 <= v <= 100; none of them is labelled 'Unknown'.                 *)
C22_AttendanceLevels ==
    (variant = "APP" /\ Done /\ HasCol(df, "attendance_level")) =>
        \A i \in RowsOf("average_class_attendance") :
            LET v == Cells("average_class_attendance")[i]
            IN  (IsNum(v) /\ v.n >= 0 /\ AtMost(v, 100)) =>
                   Cells("attendance_level")[i] = Lbl(AttendanceLevelOf(v))

-----------------------------------------------------------------------------
(* app.py: the rows of other years.                                        *)

(* the source s without the rows the admission_year filter drops *)
TargetOnly(s) ==
    LET f    == ParseCsv(s)
        mask == IF HasCol(f, "admission_year") THEN YearMask(f)
                ELSE [i \in 1..s.nrows |-> TRUE]
    IN  [s EXCEPT !.nrows = Len(KeptPositions(mask)),
                  !.data = [j \in 1..Len(s.data) |-> Where(s.data[j], mask)]]
(* the same columns with the same values, row by row *)
SameRecords(f, g) ==
    /\ Len(f.cols) = Len(g.cols)
    /\ \A j \in 1..Len(f.cols) :
          f.cols[j].name = g.cols[j].name /\ f.cols[j].cells = g.cols[j].cells
Ended == pc \in {"done", "error"}

(* C23: app.py filters the rows before it imputes: a null numeric cell is  *)
(* filled with the mean over the rows of the target admission year only,   *)
(* and load gives for an input what it gives for the input's target-year   *)
(* rows alone, so the rows of other years never influence the output.      *)
C23_OtherYearsWithoutInfluence ==
    (variant = "APP" /\ Ended) =>
        /\ Done =>
              \A j \in 1..Len(required_numeric_cols) :
                  HasCol(df, required_numeric_cols[j]) =>
                      MeanImputed(RowsTaken(RawParsed(required_numeric_cols[j], FALSE)),
                                  Cells(required_numeric_cols[j]))
        /\ LET r == Load("APP", TargetOnly(src))
           IN  IF pc = "error" THEN r.st = "raise" /\ r.err = err
               ELSE r.st # "raise" /\ SameRecords(r.df, df)

-----------------------------------------------------------------------------
(* app.py main: which page runs.                                           *)

(* C24: app.py main runs a page function if and only if load returned a    *)
(* table that is not empty, and then exactly the page selected in the      *)
(* sidebar, on that table; when load failed or no row is of the target     *)
(* admission year, main returns without running a page.                    *)
C24_PageIffTableNotEmpty ==
    [][main =>
          /\ (last'.page # "none") <=> (last'.st = "returned" /\ ~IsEmptyFrame(last'.given))
          /\ last'.page # "none" =>
                /\ last'.page = last'.selection
                /\ last'.given = cache'[1]
                /\ last'.view = Render(last'.page, cache'[1])
          /\ last'.page = "none" => last'.view = View(<<>>, <<>>)]_vars
(* main ran the selected page 2 on a table with rows *)
C24_Witness ==
    /\ variant = "APP" /\ last # <<>> /\ last.st = "returned"
    /\ last.selection = "page_2_study_habits" /\ last.page = "page_2_study_habits"
    /\ NRows(last.given) > 0 /\ last.view.groups # <<>>

-----------------------------------------------------------------------------
(* StudentPerformance.py: the columns page 3 needs.                        *)

(* C25: in StudentPerformance.py a loaded table with a 'Social Media       *)
(* Hours' (a 'Family Income') column has a 'Social Media Category' (a      *)
(* 'Family Income Category') column, also when the source column holds     *)
(* text cells that are no numbers, so that page 3 passes its               *)
(* required-column check and renders its charts.                           *)
C25_CategoryColumnsDerived ==
    (variant = "SP" /\ last # <<>> /\ last.st = "returned"
                    /\ last.page = "page_3_non_academic") =>
        /\ HasCol(last.given, "Social Media Hours") =>
              HasCol(last.given, "Social Media Category")
        /\ HasCol(last.given, "Family Income") =>
              HasCol(last.given, "Family Income Category")
        /\ HasCols(last.given, {"CGPA", "Scholarship Status", "Social Media Hours",
                                "Family Income"}) =>
              last.view.groups # <<>>

=============================================================================
